---- MODULE Spec2Model ----
(***************************************************************************)
(* Model of the Personal Finance Tracker ledger (src/models.py): the       *)
(* FinanceTracker object, its backing JSON file, the wall clock and the    *)
(* per-process string hash that Transaction._generate_id depends on, and   *)
(* of the reports of src/utils.py; chart is the monthly_data list of the   *)
(* last plot_income_vs_expenses call.                                      *)
(***************************************************************************)
EXTENDS Integers, Sequences, FiniteSets, TLC

VARIABLES transactions, categories, file, now, hashFn, lastOp, chart

vars == <<transactions, categories, file, now, hashFn, lastOp, chart>>

(* ------------------------------ bounds --------------------------------- *)
MaxTx == 2
MaxDayJumps == 1
StartYear == 2024
StartDay == 355
JumpDays == 20
MaxMonths == 6
PlotDaySpan == 370

(* --------------------------- program constants -------------------------- *)
HashMod == 10000
MonthDays == 30
SecPerDay == 24 * 60 * 60

(* ------------------------------ input sets ------------------------------ *)
Num(v) == [num |-> TRUE, val |-> v]
NotANumber == [num |-> FALSE, val |-> 0]
Kinds == {"income", "expense"}
Descriptions == {"", "rent"}
Arg(amount, category, transaction_type, description) ==
    [amount |-> amount, category |-> category,
     transaction_type |-> transaction_type, description |-> description]
\* the argument tuples add_transaction is called with: both kinds, a seed
\* category ("Other") and a new one ("Rent"), both descriptions, positive,
\* zero, negative and non-numeric amounts, and a type that is no kind
AddInputs ==
    {Arg(Num(2), "Other", "income", ""),
     Arg(Num(1), "Rent", "expense", "rent"),
     Arg(Num(2), "Rent", "expense", ""),
     Arg(Num(0), "Other", "expense", "rent"),
     Arg(Num(-1), "Rent", "income", ""),
     Arg(NotANumber, "Rent", "income", ""),
     Arg(NotANumber, "Other", "expense", "rent"),
     Arg(Num(2), "Other", "transfer", "")}
\* hash(description) before the modulus: hash("") is 0 in every process, the
\* hash of another string depends on the process's hash seed
RawHashes == {12345, 20000}
HashFns == {f \in [Descriptions -> RawHashes \cup {0}] :
              /\ f[""] = 0
              /\ f["rent"] \in RawHashes}
Years == {StartYear, StartYear + 1}
\* the days argument of generate_spending_report: an empty window, windows
\* that end just after and exactly at the previous clock value, the default
WindowDays == {0, JumpDays - 1, JumpDays, MonthDays}
Months == 1..12

(* ------------------------- clock and date strings ----------------------- *)
IsLeap(y) == (y % 4 = 0 /\ y % 100 # 0) \/ y % 400 = 0

DaysInYear(y) == IF IsLeap(y) THEN 366 ELSE 365

DaysInMonth(y, m) ==
    IF m = 2 THEN (IF IsLeap(y) THEN 29 ELSE 28)
    ELSE IF m \in {4, 6, 9, 11} THEN 30 ELSE 31

RECURSIVE YearFrom(_, _)
YearFrom(y, d) ==
    IF d < DaysInYear(y) THEN <<y, d>> ELSE YearFrom(y + 1, d - DaysInYear(y))

RECURSIVE MonthFrom(_, _, _)
MonthFrom(y, m, d) ==
    IF d < DaysInMonth(y, m) THEN <<m, d + 1>>
    ELSE MonthFrom(y, m + 1, d - DaysInMonth(y, m))

\* datetime.now(): the naive local date-time of the clock reading n (seconds
\* since StartYear-01-01 00:00:00)
DateTime(n) ==
    LET yd == YearFrom(StartYear, n \div SecPerDay)
        md == MonthFrom(yd[1], 1, yd[2])
        sod == n % SecPerDay
    IN [year |-> yd[1], month |-> md[1], day |-> md[2],
        hour |-> sod \div 3600, minute |-> (sod % 3600) \div 60,
        second |-> sod % 60]

\* strftime("%Y-%m-%d %H:%M:%S"): the six zero-padded fields of the string
Strftime(dt) == <<dt.year, dt.month, dt.day, dt.hour, dt.minute, dt.second>>

\* strptime(s, "%Y-%m-%d %H:%M:%S")
Strptime(s) == [year |-> s[1], month |-> s[2], day |-> s[3],
                hour |-> s[4], minute |-> s[5], second |-> s[6]]

\* strftime('%Y%m%d%H%M%S'): the same six zero-padded fields, run together
\* (14 digits do not fit a machine integer of the checker, so the fixed-width
\* digit groups are kept as a tuple)
StrftimeCompact(dt) ==
    <<dt.year, dt.month, dt.day, dt.hour, dt.minute, dt.second>>

(* ------------------------------ Transaction ----------------------------- *)
\* float(amount)
FloatOk(a) == a.num
Float(a) == a.val

\* Transaction._generate_id with the clock reading n
GenerateId(n, description) ==
    <<StrftimeCompact(DateTime(n)), hashFn[description] % HashMod>>

\* Transaction.__init__: n is the clock at line 17, nId the clock at line 22
NewTransaction(amount, category, transaction_type, description, date, n, nId) ==
    [amount |-> Float(amount),
     category |-> category,
     transaction_type |-> transaction_type,
     description |-> description,
     date |-> IF date # <<>> THEN date ELSE Strftime(DateTime(n)),
     id |-> GenerateId(nId, description)]

to_dict(t) ==
    [id |-> t.id, amount |-> t.amount, category |-> t.category,
     type |-> t.transaction_type, description |-> t.description,
     date |-> t.date]

\* from_dict that keeps the id the constructor generated
from_dict_regenerated(data, n) ==
    NewTransaction(Num(data.amount), data.category, data.type,
                   data.description, data.date, n, n)

from_dict(data, n) ==
    [NewTransaction(Num(data.amount), data.category, data.type,
                    data.description, data.date, n, n)
        EXCEPT !.id = data.id]

(* ----------------------------- FinanceTracker --------------------------- *)
SeedCategories ==
    [income |-> <<"Salary", "Freelance", "Investment", "Gift", "Other">>,
     expense |-> <<"Food", "Transport", "Entertainment", "Bills", "Shopping",
                   "Healthcare", "Other">>]

InSeq(x, s) == \E i \in 1..Len(s) : s[i] = x

\* the append of line 70 without the membership test of line 68
EnsureCategoryAlways(cats, transaction_type, category) ==
    [cats EXCEPT ![transaction_type] = Append(@, category)]

\* models.py 68-70
EnsureCategory(cats, transaction_type, category) ==
    IF InSeq(category, cats[transaction_type]) THEN cats
    ELSE [cats EXCEPT ![transaction_type] = Append(@, category)]

RECURSIVE SumAmounts(_, _)
SumAmounts(txs, transaction_type) ==
    IF txs = <<>> THEN 0
    ELSE (IF Head(txs).transaction_type = transaction_type
          THEN Head(txs).amount ELSE 0)
         + SumAmounts(Tail(txs), transaction_type)

\* the balance with the expenses added instead of subtracted
get_balance_added(txs) == SumAmounts(txs, "income") + SumAmounts(txs, "expense")

get_balance(txs) == SumAmounts(txs, "income") - SumAmounts(txs, "expense")

\* the month filter without the comparison of the year
InMonthAnyYear(t, year, month) == Strptime(t.date).month = month

InMonth(t, year, month) ==
    /\ Strptime(t.date).year = year
    /\ Strptime(t.date).month = month

get_monthly_summary(txs, year, month) ==
    LET monthly_transactions == SelectSeq(txs, LAMBDA t : InMonth(t, year, month))
        income == SumAmounts(monthly_transactions, "income")
        expenses == SumAmounts(monthly_transactions, "expense")
    IN [income |-> income, expenses |-> expenses,
        balance |-> income - expenses,
        transaction_count |-> Len(monthly_transactions)]

\* models.py 116
RemoveById(txs, transaction_id) ==
    SelectSeq(txs, LAMBDA t : t.id # transaction_id)

\* save_data writing the seed lists instead of self.categories
save_data_seed(txs, cats) ==
    [exists |-> TRUE,
     transactions |-> [i \in 1..Len(txs) |->
        [id |-> txs[i].id, amount |-> txs[i].amount,
         category |-> txs[i].category, type |-> txs[i].transaction_type,
         description |-> txs[i].description, date |-> txs[i].date]],
     categories |-> SeedCategories]

\* the JSON document written by save_data
save_data(txs, cats) ==
    [exists |-> TRUE,
     transactions |-> [i \in 1..Len(txs) |-> to_dict(txs[i])],
     categories |-> cats]

NoFile == [exists |-> FALSE, transactions |-> <<>>, categories |-> SeedCategories]

\* load_data that also empties the category lists when the file is missing
load_data_empty(f, cats, n) ==
    IF f.exists
    THEN [transactions |-> [i \in 1..Len(f.transactions) |->
                                from_dict(f.transactions[i], n)],
          categories |-> f.categories]
    ELSE [transactions |-> <<>>,
          categories |-> [income |-> <<>>, expense |-> <<>>]]

\* load_data: the transactions and categories of the tracker after loading
\* the file f, cats being self.categories before the load
load_data(f, cats, n) ==
    IF f.exists
    THEN [transactions |-> [i \in 1..Len(f.transactions) |->
                                from_dict(f.transactions[i], n)],
          categories |-> f.categories]
    ELSE [transactions |-> <<>>, categories |-> cats]

RECURSIVE DaysBeforeYear(_)
DaysBeforeYear(y) ==
    IF y = StartYear THEN 0 ELSE DaysInYear(y - 1) + DaysBeforeYear(y - 1)

RECURSIVE DaysBeforeMonth(_, _)
DaysBeforeMonth(y, m) ==
    IF m = 1 THEN 0 ELSE DaysInMonth(y, m - 1) + DaysBeforeMonth(y, m - 1)

\* the position of a date-time on the time line, in seconds since
\* StartYear-01-01 00:00:00 (what the comparison of two datetimes compares)
Seconds(dt) ==
    (DaysBeforeYear(dt.year) + DaysBeforeMonth(dt.year, dt.month) + dt.day - 1)
        * SecPerDay + dt.hour * 3600 + dt.minute * 60 + dt.second

\* datetime.now() keeps the microseconds that the date strings drop: a
\* reading is counted in half seconds, half = 1 when its microseconds are
\* not zero
Reading(n, half) == 2 * n + half

\* the filter of utils.py 59 with the lower bound exclusive
InWindowOpenStart(t, start_date, end_date) ==
    /\ start_date < 2 * Seconds(Strptime(t.date))
    /\ 2 * Seconds(Strptime(t.date)) <= end_date

\* utils.py 59
InWindow(t, start_date, end_date) ==
    /\ start_date <= 2 * Seconds(Strptime(t.date))
    /\ 2 * Seconds(Strptime(t.date)) <= end_date

EmptyMap == [c \in {} |-> 0]

\* utils.py 74-77, 79-82: the dict built by one pass over the list
RECURSIVE ByCategory(_, _)
ByCategory(txs, acc) ==
    IF txs = <<>> THEN acc
    ELSE LET c == Head(txs).category
             acc0 == IF c \in DOMAIN acc THEN acc ELSE acc @@ (c :> 0)
         IN ByCategory(Tail(txs),
                       [acc0 EXCEPT ![c] = @ + Head(txs).amount])

\* utils.py 52-84, n and half being the clock reading of line 54
generate_spending_report(txs, days, n, half) ==
    LET end_date == Reading(n, half)
        start_date == end_date - 2 * days * SecPerDay
        recent_transactions ==
            SelectSeq(txs, LAMBDA t : InWindow(t, start_date, end_date))
        expenses == SelectSeq(recent_transactions,
                              LAMBDA t : t.transaction_type = "expense")
        income == SelectSeq(recent_transactions,
                            LAMBDA t : t.transaction_type = "income")
        startDay == DateTime(n - days * SecPerDay)
        endDay == DateTime(n)
    IN [period |-> <<<<startDay.year, startDay.month, startDay.day>>,
                     <<endDay.year, endDay.month, endDay.day>>>>,
        total_income |-> SumAmounts(income, "income"),
        total_expenses |-> SumAmounts(expenses, "expense"),
        net_balance |-> SumAmounts(income, "income")
                          - SumAmounts(expenses, "expense"),
        expense_by_category |-> ByCategory(expenses, EmptyMap),
        income_by_category |-> ByCategory(income, EmptyMap)]

\* utils.py 118-136: monthly_data, oldest bucket first, n being the clock
\* reading of line 115
plot_income_vs_expenses(txs, months, n) ==
    [k \in 1..months |->
        LET i == months - k
            target_date == DateTime(n - MonthDays * i * SecPerDay)
            monthly_transactions ==
                SelectSeq(txs, LAMBDA t :
                    /\ Strptime(t.date).year = target_date.year
                    /\ Strptime(t.date).month = target_date.month)
        IN [month |-> <<target_date.year, target_date.month>>,
            income |-> SumAmounts(monthly_transactions, "income"),
            expenses |-> SumAmounts(monthly_transactions, "expense")]]

\* FinanceTracker.__init__
Construct(f, n) == load_data(f, SeedCategories, n)

(* ------------------------------- operations ----------------------------- *)
NoId == <<<<0, 0, 0, 0, 0, 0>>, 0>>
Op(op, raised, ret, amount, category, type, id) ==
    [op |-> op, raised |-> raised, ret |-> ret, amount |-> amount,
     category |-> category, type |-> type, id |-> id]

StartNow == StartDay * SecPerDay
MaxNow == StartNow + MaxDayJumps * JumpDays * SecPerDay

Init ==
    /\ now = StartNow
    /\ hashFn \in HashFns
    /\ file = NoFile
    /\ transactions = Construct(NoFile, StartNow).transactions
    /\ categories = Construct(NoFile, StartNow).categories
    /\ lastOp = Op("construct", "none", "none", NotANumber, "", "", NoId)
    /\ chart = <<>>

\* the clock moves on by JumpDays days between two calls; calls that no tick
\* separates read the clock within the same second
Tick ==
    /\ now + JumpDays * SecPerDay <= MaxNow
    /\ now' = now + JumpDays * SecPerDay
    /\ UNCHANGED <<transactions, categories, file, hashFn, lastOp, chart>>

\* add_transaction with an invalid transaction_type: raises at line 66
AddBadType(amount, category, transaction_type, description) ==
    /\ transaction_type \notin Kinds
    /\ lastOp' = Op("add", "ValueError", "none", amount, category,
                    transaction_type, NoId)
    /\ UNCHANGED <<transactions, categories, file, now, hashFn, chart>>

\* add_transaction whose float(amount) raises at line 13, after line 70
AddBadAmount(amount, category, transaction_type, description) ==
    /\ transaction_type \in Kinds
    /\ ~FloatOk(amount)
    /\ categories' = EnsureCategory(categories, transaction_type, category)
    /\ lastOp' = Op("add", "ValueError", "none", amount, category,
                    transaction_type, NoId)
    /\ UNCHANGED <<transactions, file, now, hashFn, chart>>

\* add_transaction returning the new transaction; the clock readings of
\* line 17 and line 22 fall into the same second
AddOk(amount, category, transaction_type, description) ==
    /\ transaction_type \in Kinds
    /\ FloatOk(amount)
    /\ Len(transactions) < MaxTx
    /\ LET cats == EnsureCategory(categories, transaction_type, category)
           transaction == NewTransaction(amount, category, transaction_type,
                                         description, <<>>, now, now)
           txs == Append(transactions, transaction)
       IN /\ categories' = cats
          /\ transactions' = txs
          /\ file' = save_data(txs, cats)
          /\ lastOp' = Op("add", "none", "Transaction", amount, category,
                          transaction_type, transaction.id)
    /\ UNCHANGED <<now, hashFn, chart>>

\* add_transaction whose save_data raises at the open() of line 138 (the
\* file cannot be written and stays as it was): lines 70 and 73 have run
AddWriteFails(amount, category, transaction_type, description) ==
    /\ transaction_type \in Kinds
    /\ FloatOk(amount)
    /\ Len(transactions) < MaxTx
    /\ LET cats == EnsureCategory(categories, transaction_type, category)
           transaction == NewTransaction(amount, category, transaction_type,
                                         description, <<>>, now, now)
       IN /\ categories' = cats
          /\ transactions' = Append(transactions, transaction)
          /\ lastOp' = Op("add", "OSError", "none", amount, category,
                          transaction_type, transaction.id)
    /\ UNCHANGED <<file, now, hashFn, chart>>

AddTransaction ==
    \E a \in AddInputs :
        \/ AddBadType(a.amount, a.category, a.transaction_type, a.description)
        \/ AddBadAmount(a.amount, a.category, a.transaction_type, a.description)
        \/ AddOk(a.amount, a.category, a.transaction_type, a.description)

AddTransactionWriteFails ==
    \E a \in AddInputs :
        AddWriteFails(a.amount, a.category, a.transaction_type, a.description)

Ids(txs) == {txs[i].id : i \in 1..Len(txs)}

DeleteTransaction ==
    \E transaction_id \in Ids(transactions) \cup {NoId} :
        LET txs == RemoveById(transactions, transaction_id)
        IN /\ transactions' = txs
           /\ file' = save_data(txs, categories)
           /\ lastOp' = Op("delete", "none", "True", NotANumber, "", "",
                           transaction_id)
           /\ UNCHANGED <<categories, now, hashFn, chart>>

\* delete_transaction whose save_data raises at the open() of line 138
DeleteWriteFails ==
    \E transaction_id \in Ids(transactions) \cup {NoId} :
        /\ transactions' = RemoveById(transactions, transaction_id)
        /\ lastOp' = Op("delete", "OSError", "none", NotANumber, "", "",
                        transaction_id)
        /\ UNCHANGED <<categories, file, now, hashFn, chart>>

\* the process ends and a new one, with its own hash seed, constructs
\* FinanceTracker over data.json
Restart ==
    /\ lastOp.op # "construct"
    /\ \E h \in HashFns : hashFn' = h
    /\ transactions' = Construct(file, now).transactions
    /\ categories' = Construct(file, now).categories
    /\ lastOp' = Op("construct", "none", "none", NotANumber, "", "", NoId)
    /\ UNCHANGED <<file, now, chart>>

\* between two runs data.json is removed, and a new process constructs
\* FinanceTracker without it
RestartWithoutFile ==
    /\ file.exists
    /\ \E h \in HashFns : hashFn' = h
    /\ file' = NoFile
    /\ transactions' = Construct(NoFile, now).transactions
    /\ categories' = Construct(NoFile, now).categories
    /\ lastOp' = Op("construct", "none", "none", NotANumber, "", "", NoId)
    /\ UNCHANGED <<now, chart>>

Next ==
    \/ Tick
    \/ AddTransaction
    \/ DeleteTransaction
    \/ Restart
    \/ RestartWithoutFile

Spec == Init /\ [][Next]_vars

\* the same program over a file that at times cannot be written
NextWriteFails ==
    \/ Next
    \/ AddTransactionWriteFails
    \/ DeleteWriteFails

SpecWriteFails == Init /\ [][NextWriteFails]_vars

(* ------------------ the chart, on any day of a year -------------------- *)
\* the days on which the chart is drawn: late enough for the oldest bucket
\* of MaxMonths to lie after the first day of StartYear
FirstPlotDay == MonthDays * (MaxMonths - 1)
PlotClocks ==
    {d * SecPerDay + s : d \in FirstPlotDay..(FirstPlotDay + PlotDaySpan),
                         s \in {0, SecPerDay - 1}}

\* a tracker over no file that is empty or holds one income of this second
InitPlot ==
    /\ now \in PlotClocks
    /\ hashFn \in HashFns
    /\ \E added \in BOOLEAN :
          IF added
          THEN LET txs == <<NewTransaction(Num(2), "Other", "income", "",
                                          <<>>, now, now)>>
               IN /\ transactions = txs
                  /\ file = save_data(txs, SeedCategories)
                  /\ lastOp = Op("add", "none", "Transaction", Num(2), "Other",
                                 "income", txs[1].id)
          ELSE /\ transactions = <<>>
               /\ file = NoFile
               /\ lastOp = Op("construct", "none", "none", NotANumber, "", "",
                              NoId)
    /\ categories = SeedCategories
    /\ chart = <<>>

\* plot_income_vs_expenses(self.tracker.transactions, months)
PlotIncomeVsExpenses ==
    \E months \in 1..MaxMonths :
        /\ chart' = plot_income_vs_expenses(transactions, months, now)
        /\ UNCHANGED <<transactions, categories, file, now, hashFn, lastOp>>

NextPlot == PlotIncomeVsExpenses

SpecPlot == InitPlot /\ [][NextPlot]_vars

(* ------------------------- vocabulary of the claims --------------------- *)
\* the step is a call of the operation op (a clock tick leaves all four alone)
IsStep(op) ==
    /\ lastOp'.op = op
    /\ <<transactions, categories, file, lastOp>>'
         # <<transactions, categories, file, lastOp>>

Returned(op) == lastOp.op = op /\ lastOp.raised = "none"

RECURSIVE SumOver(_, _)
SumOver(S, txs) ==
    IF S = {} THEN 0
    ELSE LET i == CHOOSE x \in S : TRUE
         IN txs[i].amount + SumOver(S \ {i}, txs)

OfKind(txs, k) == {i \in 1..Len(txs) : txs[i].transaction_type = k}

RemoveAt(s, k) == SubSeq(s, 1, k - 1) \o SubSeq(s, k + 1, Len(s))

NoDuplicates(s) == \A i, j \in 1..Len(s) : s[i] = s[j] => i = j

LaterClocks == {now, now + 1, now + JumpDays * SecPerDay}

(* C1: after any sequence of add_transaction and delete_transaction calls,  *)
(* get_balance() is the sum of the amounts of the income transactions in    *)
(* the ledger minus the sum of the amounts of its expense transactions.     *)
C1_BalanceIsIncomeMinusExpenses ==
    get_balance(transactions)
        = SumOver(OfKind(transactions, "income"), transactions)
          - SumOver(OfKind(transactions, "expense"), transactions)

C1_Witness ==
    /\ Returned("delete")
    /\ lastOp.id # NoId
    /\ Len(transactions) = 1
    /\ transactions[1].transaction_type = "expense"
    /\ get_balance(transactions) < 0

(* C2: after add_transaction calls, save_data followed by load_data, at any *)
(* later clock reading, yields the saved transaction sequence: the same id, *)
(* amount, category, type, description and date, in the same order.         *)
C2_SaveLoadRoundTrip ==
    Returned("add") =>
        \A n \in LaterClocks :
            load_data(file, SeedCategories, n).transactions = transactions

C2_Witness ==
    /\ Returned("add")
    /\ Len(transactions) = 2
    /\ transactions[1].date # transactions[2].date
    /\ transactions[1].description # transactions[2].description
    /\ load_data(file, SeedCategories, now + 1).transactions = transactions

(* C3: no two transactions of the ledger have the same id, also when they   *)
(* were added within the same clock second.                                 *)
C3_UniqueIds ==
    \A i, j \in 1..Len(transactions) :
        transactions[i].id = transactions[j].id => i = j

(* C4: delete_transaction(id) with an id held by a transaction of the       *)
(* ledger removes exactly one transaction; every other transaction stays,   *)
(* unmodified and in the same relative order.                               *)
C4_DeleteRemovesExactlyOne ==
    [][IsStep("delete") /\ lastOp'.id \in Ids(transactions)
         => \E k \in 1..Len(transactions) :
               /\ transactions[k].id = lastOp'.id
               /\ transactions' = RemoveAt(transactions, k)]_vars

(* C5: delete_transaction(id) with an id no transaction holds raises no     *)
(* error, leaves the transactions unchanged and returns false; the returned *)
(* boolean is true exactly when a transaction was removed.                  *)
C5_DeleteReportsRemoval ==
    [][IsStep("delete")
         => /\ lastOp'.raised = "none"
            /\ lastOp'.id \notin Ids(transactions)
                 => transactions' = transactions /\ lastOp'.ret = "False"
            /\ lastOp'.ret = "True" <=> transactions' # transactions]_vars

(* C6: add_transaction with an invalid amount (zero, negative or not a      *)
(* number) fails with a validation error and changes neither the            *)
(* transactions, nor the category lists, nor the stored document.           *)
InvalidAmount(a) == ~a.num \/ a.val <= 0

C6_InvalidAmountRejected ==
    [][IsStep("add") /\ InvalidAmount(lastOp'.amount)
         => /\ lastOp'.raised = "ValueError"
            /\ transactions' = transactions
            /\ categories' = categories
            /\ file' = file]_vars

(* C7: an add_transaction whose category is not in the list of its kind     *)
(* appends the name once at the end of that list, an add whose category is  *)
(* in the list leaves the lists unchanged, and after the call neither list  *)
(* has a duplicate; no entry is removed or reordered.                       *)
C7_CategoriesAppendedOnce ==
    [][IsStep("add")
         => /\ NoDuplicates(categories'.income)
            /\ NoDuplicates(categories'.expense)
            /\ IF lastOp'.type \notin Kinds
                   \/ InSeq(lastOp'.category, categories[lastOp'.type])
               THEN categories' = categories
               ELSE categories' =
                      [categories EXCEPT ![lastOp'.type] =
                          Append(@, lastOp'.category)]]_vars

C7_Witness ==
    /\ Returned("add")
    /\ Len(transactions) = 2
    /\ \A i \in 1..2 : /\ transactions[i].category = "Rent"
                       /\ transactions[i].transaction_type = "expense"
    /\ categories.expense = Append(SeedCategories.expense, "Rent")
    /\ categories.income = SeedCategories.income

(* C8: whenever add_transaction or delete_transaction has returned          *)
(* normally, the stored document holds the ledger's transactions, in order, *)
(* and both category lists, until the next call.                            *)
C8_ReturnedMutationIsStored ==
    Returned("add") \/ Returned("delete") =>
        /\ file.exists
        /\ Len(file.transactions) = Len(transactions)
        /\ \A i \in 1..Len(transactions) :
              /\ file.transactions[i].id = transactions[i].id
              /\ file.transactions[i].amount = transactions[i].amount
              /\ file.transactions[i].category = transactions[i].category
              /\ file.transactions[i].type = transactions[i].transaction_type
              /\ file.transactions[i].description = transactions[i].description
              /\ file.transactions[i].date = transactions[i].date
        /\ file.categories.income = categories.income
        /\ file.categories.expense = categories.expense

C8_Witness ==
    /\ Returned("delete")
    /\ Len(transactions) = 1
    /\ Len(categories.income) > Len(SeedCategories.income)
    /\ file.exists
    /\ Len(file.transactions) = 1
    /\ file.categories = categories

(* C9: constructing a FinanceTracker while the backing file does not exist  *)
(* raises no error and yields no transactions and exactly the seed category *)
(* lists, in their order.                                                   *)
C9_MissingFileGivesSeedState ==
    lastOp.op = "construct" /\ ~file.exists =>
        /\ lastOp.raised = "none"
        /\ transactions = <<>>
        /\ categories.income
             = <<"Salary", "Freelance", "Investment", "Gift", "Other">>
        /\ categories.expense
             = <<"Food", "Transport", "Entertainment", "Bills", "Shopping",
                 "Healthcare", "Other">>
        /\ DOMAIN categories = {"income", "expense"}

C9_Witness ==
    /\ lastOp.op = "construct"
    /\ ~file.exists
    /\ now > StartDay * SecPerDay
    /\ transactions = <<>>

(* C10: get_monthly_summary(y, m) counts the transactions whose date has    *)
(* year y and month m, sums their amounts by kind, and reports balance =    *)
(* income - expenses; for a month without transactions all four are 0.      *)
DatedIn(txs, y, m) ==
    {i \in 1..Len(txs) : txs[i].date[1] = y /\ txs[i].date[2] = m}

C10_MonthlySummary ==
    \A y \in Years, m \in Months :
        LET S == DatedIn(transactions, y, m)
            r == get_monthly_summary(transactions, y, m)
            inc == SumOver(S \cap OfKind(transactions, "income"), transactions)
            exp == SumOver(S \cap OfKind(transactions, "expense"), transactions)
        IN /\ r.transaction_count = Cardinality(S)
           /\ r.income = inc
           /\ r.expenses = exp
           /\ r.balance = inc - exp
           /\ S = {} => r = [income |-> 0, expenses |-> 0, balance |-> 0,
                             transaction_count |-> 0]

C10_Witness ==
    /\ Len(transactions) = 2
    /\ transactions[1].date[2] = 12
    /\ transactions[2].date[2] = 1
    /\ get_monthly_summary(transactions, StartYear, 12).transaction_count = 1
    /\ get_monthly_summary(transactions, StartYear + 1, 1).transaction_count = 1
    /\ get_monthly_summary(transactions, StartYear + 1, 12).transaction_count = 0
(* C11: the month buckets built by plot_income_vs_expenses are monthCount   *)
(* consecutive distinct calendar months, oldest first, the last being the   *)
(* current calendar month: none is skipped and none appears twice.          *)
NextMonth(ym) == IF ym[2] = 12 THEN <<ym[1] + 1, 1>> ELSE <<ym[1], ym[2] + 1>>

C11_ConsecutiveMonthBuckets ==
    chart # <<>> =>
        /\ chart[Len(chart)].month = <<DateTime(now).year, DateTime(now).month>>
        /\ \A k \in 1..(Len(chart) - 1) :
              chart[k + 1].month = NextMonth(chart[k].month)

(* C12: generate_spending_report(transactions, days) aggregates exactly the *)
(* transactions dated in the closed interval [now - days, now]: the totals  *)
(* and the net balance are over that subset, each category map has as keys  *)
(* the categories with an in-window transaction of its kind and as values   *)
(* the sums of their amounts; with every transaction older than the window  *)
(* the totals are 0 and both maps are empty.                                *)
\* date strings of the fixed-width format are ordered as their fields are
LexLess(a, b) ==
    \E k \in 1..6 : a[k] < b[k] /\ \A j \in 1..(k - 1) : a[j] = b[j]

\* the transactions dated in [now - days, now], now having whole seconds
\* (half = 0) or a fraction of a second more (half = 1)
Windowed(txs, days, half) ==
    LET first == Strftime(DateTime(now - days * SecPerDay))
        last == Strftime(DateTime(now))
    IN {i \in 1..Len(txs) :
          /\ LexLess(first, txs[i].date) \/ (half = 0 /\ first = txs[i].date)
          /\ LexLess(txs[i].date, last) \/ txs[i].date = last}

C12_SpendingReportWindow ==
    \A days \in WindowDays, half \in {0, 1} :
        LET r == generate_spending_report(transactions, days, now, half)
            W == Windowed(transactions, days, half)
            I == W \cap OfKind(transactions, "income")
            E == W \cap OfKind(transactions, "expense")
            Of(S, c) == {i \in S : transactions[i].category = c}
        IN /\ r.total_income = SumOver(I, transactions)
           /\ r.total_expenses = SumOver(E, transactions)
           /\ r.net_balance
                = SumOver(I, transactions) - SumOver(E, transactions)
           /\ DOMAIN r.income_by_category
                = {transactions[i].category : i \in I}
           /\ DOMAIN r.expense_by_category
                = {transactions[i].category : i \in E}
           /\ \A c \in DOMAIN r.income_by_category :
                 r.income_by_category[c] = SumOver(Of(I, c), transactions)
           /\ \A c \in DOMAIN r.expense_by_category :
                 r.expense_by_category[c] = SumOver(Of(E, c), transactions)
           /\ W = {} => /\ r.total_income = 0
                        /\ r.total_expenses = 0
                        /\ r.net_balance = 0
                        /\ r.income_by_category = EmptyMap
                        /\ r.expense_by_category = EmptyMap

C12_Witness ==
    /\ Len(transactions) = 2
    /\ now = StartNow + JumpDays * SecPerDay
    /\ transactions[1].date = Strftime(DateTime(StartNow))
    /\ transactions[1].transaction_type = "expense"
    /\ transactions[1].amount > 0
    /\ transactions[2].date = Strftime(DateTime(now))
    /\ transactions[2].transaction_type = "income"
    /\ generate_spending_report(transactions, JumpDays, now, 0).total_expenses
         = transactions[1].amount
    /\ generate_spending_report(transactions, JumpDays, now, 1).total_expenses
         = 0
    /\ DOMAIN generate_spending_report(transactions, JumpDays, now, 1)
                 .income_by_category = {transactions[2].category}
    /\ generate_spending_report(transactions, 0, now, 1).income_by_category
         = EmptyMap

(* C13: when the durable write inside add_transaction fails, the failure   *)
(* is raised to the caller and the in-memory append is rolled back: the     *)
(* transactions and the category lists are as before the call.              *)
C13_FailedWriteRolledBack ==
    [][IsStep("add") /\ lastOp'.raised = "OSError"
         => /\ transactions' = transactions
            /\ categories' = categories]_vars

====
